---- MODULE Spec2Model ----
(***************************************************************************)
(* A model of env_perm (src/src/lib.rs): the three public operations       *)
(* check_or_set, append and set, the private get_profile and find_profile, *)
(* the process environment they read and the candidate profile files of    *)
(* the home directory they open, create and append to.                     *)
(*                                                                         *)
(* Strings the code inspects (the value of SHELL) are tuples of one-letter *)
(* strings, so that split('/'), last() and to_uppercase() are computed.    *)
(* Strings the code only copies (variable names, values, the literal       *)
(* pieces of the format string, file names) are TLA+ strings.              *)
(***************************************************************************)
EXTENDS Integers, Sequences, FiniteSets, TLC

\* Number of calls the process makes in Spec, which starts in every environment.
MaxCalls == 1

\* Number of calls the process makes, one after the other, in SpecSeq.
MaxOps == 2

\* Number of calls each of the two processes makes in SpecConc.
MaxConcOps == 1

Proc == {1, 2}

NoFile == "NoFile"

VARIABLES
    env_SHELL,  \* env::var("SHELL"): [ok, val], val a tuple of characters
    env_var,    \* what env::var(name) finds for the target variable
    home,       \* what dirs::home_dir(), to_str(), fs::metadata() and the create find
    fs,         \* the candidate files of the home directory: state and content
    entries,    \* the order in which phf::Map::entries() yields the three keys
    active,     \* the processes that run
    budget,     \* the number of calls each of them makes
    pc,         \* where each process is
    op,         \* the public function each process is in, with its arguments
    shell_bin,  \* get_profile's shell_bin
    idx,        \* find_profile: position in entries
    create,     \* find_profile: open_opts' create flag
    selected,   \* the file the returned handle is on
    written,    \* number of pieces of the line write_fmt has written
    result,     \* what the call returned
    calls,      \* number of calls made
    fs0,        \* history: the file system when the current call started
    steps       \* history: the steps of the current call, in order

vars == <<env_SHELL, env_var, home, fs, entries, active, budget, pc, op, shell_bin, idx,
          create, selected, written, result, calls, fs0, steps>>

envVars == <<env_SHELL, env_var, home, entries, active, budget>>

-----------------------------------------------------------------------------
\* Characters and strings inspected by the code.

LowerLetters == <<"a","b","c","d","e","f","g","h","i","j","k","l","m",
                  "n","o","p","q","r","s","t","u","v","w","x","y","z">>
UpperLetters == <<"A","B","C","D","E","F","G","H","I","J","K","L","M",
                  "N","O","P","Q","R","S","T","U","V","W","X","Y","Z">>

UpperChar(c) ==
    IF \E i \in 1..Len(LowerLetters) : LowerLetters[i] = c
    THEN UpperLetters[CHOOSE i \in 1..Len(LowerLetters) : LowerLetters[i] = c]
    ELSE c

\* str::to_uppercase
to_uppercase(s) == [i \in 1..Len(s) |-> UpperChar(s[i])]

SetMax(S) == CHOOSE x \in S : \A y \in S : y <= x

\* s.split('/').last(): the part after the last '/', the whole string when
\* there is none; never None, so the expect of line 129 never panics.
split_last(s) ==
    LET slashes == {i \in 1..Len(s) : s[i] = "/"}
    IN  IF slashes = {} THEN s ELSE SubSeq(s, SetMax(slashes) + 1, Len(s))

\* ShellBin::from_str
ShellBin_from_str(s) ==
    LET u == to_uppercase(s)
    IN  CASE u = <<"Z","S","H">> -> [ok |-> TRUE, bin |-> "Zsh"]
          [] u = <<"B","A","S","H">> -> [ok |-> TRUE, bin |-> "Bash"]
          [] OTHER -> [ok |-> FALSE, bin |-> "NotSupported"]

\* static SHELL
SHELL == <<
    [shell_bin |-> "Zsh",
     shell_cfg_files |-> [profile |-> ".zprofile", login |-> ".zlogin", shellrc |-> ".zshrc"]],
    [shell_bin |-> "Bash",
     shell_cfg_files |-> [profile |-> ".bash_profile", login |-> ".bash_login", shellrc |-> ".bashrc"]]
  >>

Keys == {"profile", "login", "shellrc"}

FileNames == {SHELL[i].shell_cfg_files[k] : i \in 1..Len(SHELL), k \in Keys}

\* The first entry of SHELL whose shell_bin equals from_str(shell_bin), as the
\* find of lines 160-164 computes it: Panics when from_str is Err (the expect
\* in the closure), 0 when no entry matches.
Panics == -1

find_shell(s) ==
    LET r == ShellBin_from_str(s)
        hits == {i \in 1..Len(SHELL) : SHELL[i].shell_bin = r.bin}
    IN  IF ~r.ok THEN Panics
        ELSE IF hits = {} THEN 0
        ELSE CHOOSE i \in hits : \A j \in hits : i <= j

-----------------------------------------------------------------------------
\* The environment a call can meet.

sh_zsh   == <<"/","b","i","n","/","z","s","h">>
sh_Bash  == <<"B","a","s","h">>
sh_fish  == <<"/","b","i","n","/","f","i","s","h">>
sh_slash == <<"/","b","i","n","/","z","s","h","/">>
sh_empty == <<>>

\* env::var("SHELL") is Err when SHELL is not set (or is not Unicode).
NoVar == [ok |-> FALSE, val |-> <<>>]

ShellValues ==
    {NoVar} \cup {[ok |-> TRUE, val |-> v] : v \in {sh_empty, sh_zsh, sh_Bash, sh_fish, sh_slash}}

\* env::var(name): Ok when set and valid Unicode, Err(NotPresent), Err(NotUnicode).
EnvVarStates == {"unset", "unicode", "notunicode"}

\* none:     dirs::home_dir() is None
\* nonutf8:  the path's to_str() is None
\* missing:  fs::metadata fails
\* readonly: the metadata's permissions are readonly (no write bit)
\* writable: a write bit is set and the process can create files in it
\* nocreate: a write bit is set, but the process cannot create files in it
HomeStates == {"none", "nonutf8", "missing", "readonly", "writable", "nocreate"}

\* absent:     no such file
\* file:       a file that an append-mode open opens
\* unopenable: the name exists, and an append-mode open of it fails
\*             (a directory, or a file the process may not write)
FileStates == {"absent", "file", "unopenable"}

Ops == {"check_or_set", "append", "set"}
Names == {"FOO"}
Values == {"1"}

OldContent == <<[by |-> 0, call |-> 0, text |-> "# old\n"]>>

Permutations3 ==
    {s \in [1..3 -> Keys] : \A i, j \in 1..3 : i # j => s[i] # s[j]}

\* The key of a file name.
KeyOf(f) == CHOOSE k \in Keys : \E i \in 1..Len(SHELL) : SHELL[i].shell_cfg_files[k] = f

InitFs(st) ==
    [f \in FileNames |->
        [state |-> st[KeyOf(f)],
         content |-> IF st[KeyOf(f)] = "file" THEN OldContent ELSE <<>>]]

NoOp == [fn |-> "none", var |-> "", value |-> ""]

InitProcs ==
    /\ pc = [p \in Proc |-> "idle"]
    /\ op = [p \in Proc |-> NoOp]
    /\ shell_bin = [p \in Proc |-> <<>>]
    /\ idx = [p \in Proc |-> 0]
    /\ create = [p \in Proc |-> FALSE]
    /\ selected = [p \in Proc |-> NoFile]
    /\ written = [p \in Proc |-> 0]
    /\ result = [p \in Proc |-> "none"]
    /\ calls = [p \in Proc |-> 0]
    /\ fs0 = [p \in Proc |-> fs]
    /\ steps = [p \in Proc |-> <<>>]

InitEnv ==
    /\ env_SHELL \in ShellValues
    /\ env_var \in EnvVarStates
    /\ home \in HomeStates
    /\ entries \in Permutations3
    /\ \E st \in [Keys -> FileStates] :
          /\ home \in {"none", "nonutf8", "missing"} => \A k \in Keys : st[k] = "absent"
          /\ fs = InitFs(st)

Init ==
    /\ InitEnv
    /\ active = {1}
    /\ budget = MaxCalls
    /\ InitProcs

-----------------------------------------------------------------------------
\* The operations.

\* The pieces fmt::write hands to the file one write_all at a time: the
\* literal pieces of the format string (writeln! adds the final "\n" to the
\* last one) and the arguments between them. A File is not buffered.
Pieces(o) ==
    IF o.fn = "append"
    THEN <<"\nexport ", o.var, "=\"", o.value, ":$", o.var, "\"\n">>
    ELSE <<"\nexport ", o.var, "=", o.value, "\n">>

\* A write on a handle opened without append(true): at offset 0 of the handle.
AppendWrite_from_start(content, p, text) ==
    <<[by |-> p, call |-> calls[p], text |-> text]>>
        \o (IF content = <<>> THEN <<>> ELSE Tail(content))

\* One write(2) on a handle opened with append(true): the bytes go after
\* whatever the file holds at that moment.
AppendWrite(content, p, text) ==
    Append(content, [by |-> p, call |-> calls[p], text |-> text])

\* The create flag left as line 158 set it.
CreateFlag_never(c, k) == c

\* open_opts.create after lines 168-170: set on the "profile" key, never reset.
CreateFlag(c, k) == c \/ k = "profile"

\* open_opts.open(path) with append(true) and the given create flag:
\* "opened", "created" or "failed".
OpenOutcome(f, c) ==
    CASE fs[f].state = "file" -> "opened"
      [] fs[f].state = "absent" /\ c /\ home = "writable" -> "created"
      [] OTHER -> "failed"

Begin(p, fn, var, value) ==
    /\ op' = [op EXCEPT ![p] = [fn |-> fn, var |-> var, value |-> value]]
    /\ calls' = [calls EXCEPT ![p] = @ + 1]
    /\ fs0' = [fs0 EXCEPT ![p] = fs]
    /\ shell_bin' = [shell_bin EXCEPT ![p] = <<>>]
    /\ idx' = [idx EXCEPT ![p] = 0]
    /\ create' = [create EXCEPT ![p] = FALSE]
    /\ selected' = [selected EXCEPT ![p] = NoFile]
    /\ written' = [written EXCEPT ![p] = 0]

CanCall(p) ==
    /\ p \in active
    /\ pc[p] \in {"idle", "done"}
    /\ calls[p] < budget

\* check_or_set (line 86): env::var(&var), Ok maps to Ok(()), Err calls set.
check_or_set(p) ==
    /\ CanCall(p)
    /\ \E var \in Names, value \in Values : Begin(p, "check_or_set", var, value)
    /\ steps' = [steps EXCEPT ![p] = <<"env::var">>]
    /\ IF env_var = "unicode"
       THEN /\ pc' = [pc EXCEPT ![p] = "done"]
            /\ result' = [result EXCEPT ![p] = "Ok"]
       ELSE /\ pc' = [pc EXCEPT ![p] = "get_profile"]
            /\ result' = [result EXCEPT ![p] = "none"]
    /\ UNCHANGED <<envVars, fs>>

\* append (line 91), up to its call of get_profile.
append(p) ==
    /\ CanCall(p)
    /\ \E var \in Names, value \in Values : Begin(p, "append", var, value)
    /\ steps' = [steps EXCEPT ![p] = <<>>]
    /\ pc' = [pc EXCEPT ![p] = "get_profile"]
    /\ result' = [result EXCEPT ![p] = "none"]
    /\ UNCHANGED <<envVars, fs>>

\* set (line 103), up to its call of get_profile.
set(p) ==
    /\ CanCall(p)
    /\ \E var \in Names, value \in Values : Begin(p, "set", var, value)
    /\ steps' = [steps EXCEPT ![p] = <<>>]
    /\ pc' = [pc EXCEPT ![p] = "get_profile"]
    /\ result' = [result EXCEPT ![p] = "none"]
    /\ UNCHANGED <<envVars, fs>>

Locals == <<idx, create, selected, written>>

\* get_profile, line 110: env::var("SHELL").expect(..).
read_SHELL(p) ==
    /\ p \in active
    /\ pc[p] = "get_profile"
    /\ steps' = [steps EXCEPT ![p] = Append(@, "read_SHELL")]
    /\ IF env_SHELL.ok
       THEN /\ shell_bin' = [shell_bin EXCEPT ![p] = env_SHELL.val]
            /\ pc' = [pc EXCEPT ![p] = "home_dir"]
            /\ UNCHANGED result
       ELSE /\ pc' = [pc EXCEPT ![p] = "panicked"]
            /\ result' = [result EXCEPT ![p] = "panic: SHELL environment variable was not found"]
            /\ UNCHANGED shell_bin
    /\ UNCHANGED <<envVars, fs, op, calls, fs0, Locals>>

\* What lines 113-151 return: the error, or "Ok" with the home directory.
home_guard ==
    CASE home = "none"     -> "Err(NotFound): No home directory"
      [] home = "nonutf8"  -> "Err(InvalidInput): Failed to coerce Home directory as a valid Path"
      [] home = "missing"  -> "Err(InvalidInput): Path to profile was invalid, or was not found"
      [] home = "readonly" -> "Err(PermissionDenied): Unable to write to home directory, cannot export env var"
      [] OTHER -> "Ok"

\* get_profile, lines 113-151: home_dir, to_str, the split of shell_bin (inside
\* the closure that runs once to_str succeeded), metadata, readonly.
home_dir(p) ==
    /\ p \in active
    /\ pc[p] = "home_dir"
    /\ steps' = [steps EXCEPT ![p] = Append(@, "home_dir")]
    /\ shell_bin' = [shell_bin EXCEPT ![p] =
                        IF home \in {"none", "nonutf8"} THEN @ ELSE split_last(@)]
    /\ IF home_guard = "Ok"
       THEN /\ pc' = [pc EXCEPT ![p] = "find_profile"]
            /\ UNCHANGED result
       ELSE /\ pc' = [pc EXCEPT ![p] = "done"]
            /\ result' = [result EXCEPT ![p] = home_guard]
    /\ UNCHANGED <<envVars, fs, op, calls, fs0, Locals>>

\* find_profile, lines 157-165: the open options and the find over SHELL.
find_profile(p) ==
    /\ p \in active
    /\ pc[p] = "find_profile"
    /\ steps' = [steps EXCEPT ![p] = Append(@, "from_str")]
    /\ LET sp == find_shell(shell_bin[p])
       IN  CASE sp = Panics ->
                  /\ pc' = [pc EXCEPT ![p] = "panicked"]
                  /\ result' = [result EXCEPT ![p] =
                        "panic: Unable to match shell_bin with a supported ShellType"]
                  /\ UNCHANGED idx
             [] sp = 0 ->
                  /\ pc' = [pc EXCEPT ![p] = "done"]
                  /\ result' = [result EXCEPT ![p] = "Err(NotFound): No shell profiles were found"]
                  /\ UNCHANGED idx
             [] OTHER ->
                  /\ pc' = [pc EXCEPT ![p] = "open"]
                  /\ idx' = [idx EXCEPT ![p] = 1]
                  /\ UNCHANGED result
    /\ create' = [create EXCEPT ![p] = FALSE]
    /\ UNCHANGED <<envVars, fs, op, calls, fs0, shell_bin, selected, written>>

\* The catalog entry of the process's shell.
ShellFiles(p) == SHELL[find_shell(shell_bin[p])].shell_cfg_files

\* find_profile, lines 166-191: one turn of the loop over entries, and the
\* Err after the loop when the last open failed.
open(p) ==
    /\ p \in active
    /\ pc[p] = "open"
    /\ LET k == entries[idx[p]]
           f == ShellFiles(p)[k]
           c == CreateFlag(create[p], k)
           o == OpenOutcome(f, c)
       IN  /\ create' = [create EXCEPT ![p] = c]
           /\ steps' = [steps EXCEPT ![p] = Append(@, f)]
           /\ CASE o = "opened" ->
                     /\ selected' = [selected EXCEPT ![p] = f]
                     /\ pc' = [pc EXCEPT ![p] = "write"]
                     /\ UNCHANGED <<fs, idx, result>>
                [] o = "created" ->
                     /\ fs' = [fs EXCEPT ![f] = [state |-> "file", content |-> <<>>]]
                     /\ selected' = [selected EXCEPT ![p] = f]
                     /\ pc' = [pc EXCEPT ![p] = "write"]
                     /\ UNCHANGED <<idx, result>>
                [] OTHER ->
                     /\ idx' = [idx EXCEPT ![p] = @ + 1]
                     /\ IF idx[p] = 3
                        THEN /\ pc' = [pc EXCEPT ![p] = "done"]
                             /\ result' = [result EXCEPT ![p] =
                                              "Err(NotFound): No shell profiles were found"]
                        ELSE UNCHANGED <<pc, result>>
                     /\ UNCHANGED <<fs, selected>>
    /\ UNCHANGED <<envVars, op, calls, fs0, shell_bin, written>>

\* writeln! (lines 93, 105): one write_all of write_fmt, which succeeds.
write(p) ==
    /\ p \in active
    /\ pc[p] = "write"
    /\ LET piece == Pieces(op[p])[written[p] + 1]
       IN  fs' = [fs EXCEPT ![selected[p]].content = AppendWrite(@, p, piece)]
    /\ written' = [written EXCEPT ![p] = @ + 1]
    /\ pc' = [pc EXCEPT ![p] = IF written[p] + 1 = Len(Pieces(op[p])) THEN "flush" ELSE "write"]
    /\ steps' = [steps EXCEPT ![p] = Append(@, "write")]
    /\ UNCHANGED <<envVars, op, calls, fs0, shell_bin, idx, create, selected, result>>

\* writeln! (lines 93, 105): one write_all of write_fmt fails (the disk is
\* full, an I/O error); the ? returns the error.
write_error(p) ==
    /\ p \in active
    /\ pc[p] = "write"
    /\ pc' = [pc EXCEPT ![p] = "done"]
    /\ result' = [result EXCEPT ![p] = "Err(io): write"]
    /\ steps' = [steps EXCEPT ![p] = Append(@, "write_error")]
    /\ UNCHANGED <<envVars, fs, op, calls, fs0, shell_bin, Locals>>

\* profile.flush() (lines 94, 106): File::flush does nothing and returns Ok.
flush(p) ==
    /\ p \in active
    /\ pc[p] = "flush"
    /\ pc' = [pc EXCEPT ![p] = "done"]
    /\ result' = [result EXCEPT ![p] = "Ok"]
    /\ steps' = [steps EXCEPT ![p] = Append(@, "flush")]
    /\ UNCHANGED <<envVars, fs, op, calls, fs0, shell_bin, Locals>>

Next ==
    \E p \in Proc :
        \/ check_or_set(p)
        \/ append(p)
        \/ set(p)
        \/ read_SHELL(p)
        \/ home_dir(p)
        \/ find_profile(p)
        \/ open(p)
        \/ write(p)
        \/ write_error(p)
        \/ flush(p)

Spec == Init /\ [][Next]_vars

\* One process, MaxOps calls one after the other, in a home directory the
\* guard accepts, under a supported shell.
InitSeq ==
    /\ InitEnv
    /\ env_SHELL.ok /\ find_shell(split_last(env_SHELL.val)) > 0
    /\ home = "writable"
    /\ \/ \A f \in FileNames : fs[f].state = "absent"
       \/ \A f \in FileNames : fs[f].state = "file"
    /\ active = {1}
    /\ budget = MaxOps
    /\ InitProcs

SpecSeq == InitSeq /\ [][Next]_vars

\* Two processes (two programs that link the crate, started by the same
\* user), MaxConcOps calls each, with no lock on the profile file. Both run
\* zsh and meet the Profile file first, so that they write to the same file.
InitConc ==
    /\ InitEnv
    /\ env_SHELL.ok /\ find_shell(split_last(env_SHELL.val)) = 1
    /\ entries[1] = "profile"
    /\ env_var = "unicode"
    /\ home = "writable"
    /\ \/ \A f \in FileNames : fs[f].state = "absent"
       \/ \A f \in FileNames : fs[f].state = "file"
    /\ active = {1, 2}
    /\ budget = MaxConcOps
    /\ InitProcs

SpecConc == InitConc /\ [][Next]_vars

-----------------------------------------------------------------------------
\* Vocabulary of the properties.

Range(s) == {s[i] : i \in 1..Len(s)}

\* The bytes of a file, without the record of who wrote them.
Text(c) == [i \in 1..Len(c) |-> c[i].text]

\* The call of p has ended: it returned, or it panicked.
Ended(p) == pc[p] \in {"done", "panicked"}

\* The call of p reaches get_profile: it is a set, an append, or a
\* check_or_set whose env::var was not Ok.
Acquires(p) ==
    \/ op[p].fn \in {"set", "append"}
    \/ op[p].fn = "check_or_set" /\ env_var # "unicode"

\* The shell the value of SHELL names: an index of SHELL, 0 when SHELL is
\* absent or names no supported shell.
NamedShell ==
    IF env_SHELL.ok /\ find_shell(split_last(env_SHELL.val)) > 0
    THEN find_shell(split_last(env_SHELL.val))
    ELSE 0

Catalog(i) == SHELL[i].shell_cfg_files

\* find_profile has returned in the call of p.
LookupOver(p) ==
    /\ "from_str" \in Range(steps[p])
    /\ pc[p] \in {"write", "flush", "done"}

\* The files the call of p has tried to open, in order.
Tried(p) == SelectSeq(steps[p], LAMBDA x : x \in FileNames)

RoleOrder == <<"profile", "login", "shellrc">>

\* An open of f would have succeeded in file system F: f is a file, or it is
\* the Profile file, which may be created.
CouldOpen(F, f) ==
    \/ F[f].state = "file"
    \/ KeyOf(f) = "profile" /\ F[f].state = "absent" /\ home = "writable"

\* The line a set or an append is to leave, as the sequence of its parts.
ExpectedLine(o) ==
    IF o.fn = "append"
    THEN <<"\nexport ", o.var, "=\"", o.value, ":$", o.var, "\"\n">>
    ELSE <<"\nexport ", o.var, "=", o.value, "\n">>

-----------------------------------------------------------------------------
\* C1: under zsh, in a home directory that holds .zshrc and neither
\* .zprofile nor .zlogin, the lookup returns a handle on .zshrc, and
\* .zprofile and .zlogin still do not exist afterwards.
C1_OnlyZshrc ==
    \A p \in active :
        ( /\ LookupOver(p)
          /\ NamedShell = 1
          /\ fs0[p][".zshrc"].state = "file"
          /\ fs0[p][".zprofile"].state = "absent"
          /\ fs0[p][".zlogin"].state = "absent" )
        => /\ selected[p] = ".zshrc"
           /\ fs[".zprofile"].state = "absent"
           /\ fs[".zlogin"].state = "absent"

\* C2: the candidates are tried in the order Profile, Login, ShellRc, the
\* lookup returns the first one whose open succeeds, and so no candidate is
\* selected while a candidate of an earlier role could have been opened.
C2_RoleOrder ==
    \A p \in active :
        NamedShell > 0 =>
            LET F == Catalog(NamedShell)
                t == Tried(p)
            IN  /\ \A j \in 1..Len(t) : t[j] = F[RoleOrder[j]]
                /\ selected[p] # NoFile =>
                      /\ selected[p] = t[Len(t)]
                      /\ \A j \in 1..3 : \A k \in 1..3 :
                            (j < k /\ F[RoleOrder[k]] = selected[p])
                            => ~CouldOpen(fs0[p], F[RoleOrder[j]])

\* C3: a Login or ShellRc file that did not exist before the call never
\* exists after it and is never the selected file.
C3_OnlyProfileCreated ==
    \A p \in active : \A f \in FileNames :
        (KeyOf(f) # "profile" /\ fs0[p][f].state = "absent")
        => fs[f].state = "absent" /\ selected[p] # f

\* C4: when SHELL is empty, absent or names no supported shell, a set, an
\* append or a check_or_set of an unset variable ends by returning a failure
\* value to its caller, and has opened, created and written no file.
C4_UnsupportedShellReturned ==
    \A p \in active :
        (NamedShell = 0 /\ Ended(p) /\ Acquires(p) /\ env_var # "notunicode")
        => /\ pc[p] = "done"
           /\ result[p] # "Ok"
           /\ Tried(p) = <<>>
           /\ fs = fs0[p]

\* C5: the guard decides before the shell identifier is read: in a home
\* directory that exists and is not writable, the call ends in
\* PermissionDenied for every value of the shell identifier.
C5_GuardFirst ==
    \A p \in active :
        (home = "readonly" /\ Ended(p) /\ Acquires(p))
        => /\ pc[p] = "done"
           /\ result[p] = home_guard

\* C6: check_or_set of a variable that is present in the environment leaves
\* the file system unchanged: it creates no profile file and writes to none.
C6_PresentIsNoOp ==
    \A p \in active :
        (op[p].fn = "check_or_set" /\ env_var # "unset") => fs = fs0[p]

C8_NoPartialWrite ==
    \A p \in active :
        (Ended(p) /\ op[p].fn # "none" /\ result[p] # "Ok")
        => \A f \in FileNames : fs[f].content = fs0[p][f].content

\* C9: when two processes have both returned Ok, the file holds the line of
\* each as one contiguous run: no bytes of the other lie inside it.
C9_WholeLines ==
    (\A q \in active : pc[q] = "done" /\ result[q] = "Ok")
    => \A p \in active :
          selected[p] # NoFile =>
              LET c == fs[selected[p]].content
                  mine == {i \in 1..Len(c) : c[i].by = p /\ c[i].call = calls[p]}
              IN  /\ mine # {}
                  /\ \A i \in mine, j \in mine : \A k \in i..j : k \in mine

\* C10: under a supported shell, in a writable home directory that holds none
\* of the shell's three files, the lookup creates the Profile file and
\* returns a handle on it, and the Login and ShellRc files still do not exist.
C10_CreatesProfile ==
    \A p \in active :
        ( /\ LookupOver(p)
          /\ NamedShell > 0
          /\ home = "writable"
          /\ \A k \in Keys : fs0[p][Catalog(NamedShell)[k]].state = "absent" )
        => /\ selected[p] = Catalog(NamedShell).profile
           /\ fs[Catalog(NamedShell).profile].state = "file"
           /\ fs[Catalog(NamedShell).login].state = "absent"
           /\ fs[Catalog(NamedShell).shellrc].state = "absent"

\* C10, the case: under zsh the lookup has returned in a home directory that
\* held none of the three files, .zprofile was created and is selected.
C10_Witness ==
    \E p \in active :
        /\ LookupOver(p)
        /\ NamedShell = 1
        /\ home = "writable"
        /\ \A k \in Keys : fs0[p][Catalog(1)[k]].state = "absent"
        /\ selected[p] = ".zprofile"
        /\ fs[".zprofile"].state = "file"

====
